---- MODULE Spec2Model ----
(***************************************************************************)
(* Lifecycle orchestration of app.NewApp / app.Run (src/app/app.go): the   *)
(* main goroutine's startup sequence, the errgroup that supervises one     *)
(* goroutine per chain plus the server, the shutdown handler that cancels  *)
(* the root context, and the fan-out of log events to the outputs.         *)
(***************************************************************************)
EXTENDS Naturals, Sequences, FiniteSets

\* ------------------------------------------------------------- bounds
MaxChains == 2
MaxRounds == 2
MaxSignals == 2
MaxOutputs == 3

\* ---------------------------------------------------------- vocabulary
Chains == 1..MaxChains
NoErr == "nil"
ServerErr == "server error"
ChainErr == "chain error"
CtxCanceled == "context canceled"
NoConfig == [chains |-> 0, console |-> "unset", postgres |-> "unset"]
Configs ==
  [chains : 0..MaxChains,
   console : {"absent", "enabled", "disabled"},
   postgres : {"absent", "reachable", "unreachable"}]

VARIABLES
  pc,          \* position of the main goroutine in NewApp / Run
  exitCause,   \* the failure a Fatal call logged ("" when none did)
  config,      \* a.config, as loaded by LoadConfigJSON
  listening,   \* ShutdownHandler is waiting for a termination request
  requests,    \* termination requests delivered so far
  ctxDone,     \* ctx of context.WithCancel is cancelled
  gctxDone,    \* gctx of errgroup.WithContext is cancelled
  gerr,        \* the errgroup's recorded first error
  outputs,     \* the Outputs collection, in Add order
  chainState,  \* per chain: Absent, Created, Running, Cancelled
  chainFailed, \* per chain: its loop has logged an internal error
  chainPos,    \* per chain: index in outputs of the delivery in progress
  nextChain,   \* loop variable of the range over chains
  serverState, \* Absent, Created, Running, Completed, Cancelled
  serverResult,\* what s.Run returned
  dbState,     \* absent, connected, migrated, closed
  deferred,    \* defer db.Close(ctx) has been registered
  closeCount,  \* how often db.Close ran
  waitResult,  \* what g.Wait() returned ("pending" before it returns)
  rounds,      \* rounds of the chains' loops so far (an event or an error)
  delivered,   \* per chain: outputs its latest event was handed to, in order
  failures,    \* indexes in outputs of the deliveries that failed
  dbSeenAt     \* dbState values in which the database received an event

vars ==
  <<pc, exitCause, config, listening, requests, ctxDone, gctxDone, gerr,
    outputs, chainState, chainFailed, chainPos, nextChain,
    serverState, serverResult, dbState, deferred, closeCount, waitResult,
    rounds, delivered, failures, dbSeenAt>>

mainVars == <<pc, exitCause>>
cfgVars == <<config>>
sigVars == <<listening, requests>>
ctxVars == <<ctxDone, gctxDone, gerr>>
chainVars == <<chainState, chainFailed, chainPos, nextChain>>
serverVars == <<serverState, serverResult>>
dbVars == <<dbState, deferred, closeCount>>
sinkVars == <<rounds, delivered, failures, dbSeenAt>>

Init ==
  /\ pc = "LoadConfigJSON"
  /\ exitCause = ""
  /\ config = NoConfig
  /\ listening = FALSE
  /\ requests = 0
  /\ ctxDone = FALSE
  /\ gctxDone = FALSE
  /\ gerr = NoErr
  /\ outputs = << >>
  /\ chainState = [c \in Chains |-> "Absent"]
  /\ chainFailed = [c \in Chains |-> FALSE]
  /\ chainPos = [c \in Chains |-> 0]
  /\ nextChain = 1
  /\ serverState = "Absent"
  /\ serverResult = NoErr
  /\ dbState = "absent"
  /\ deferred = FALSE
  /\ closeCount = 0
  /\ waitResult = "pending"
  /\ rounds = 0
  /\ delivered = [c \in Chains |-> << >>]
  /\ failures = {}
  /\ dbSeenAt = {}

\* The process lives: neither a Fatal call nor the return of Run ended it.
Alive == pc \notin {"exited", "done"}

\* logger.Fatal*: logs and calls os.Exit(1); deferred calls do not run.
Fatal(cause) ==
  /\ pc' = "exited"
  /\ exitCause' = cause

\* ------------------------------------------------------------- NewApp
\* config, err := LoadConfigJSON(configPath), Fatalf on an error.
LoadConfigJSON ==
  /\ pc = "LoadConfigJSON"
  /\ \/ /\ \E cfg \in Configs : config' = cfg
        /\ pc' = "LoadContracts"
        /\ UNCHANGED exitCause
     \/ /\ Fatal("config")
        /\ UNCHANGED config
  /\ UNCHANGED <<sigVars, ctxVars, outputs, chainVars, serverVars, dbVars,
                 waitResult, sinkVars>>

\* LoadContracts with the error only logged: NewApp carries on.
LoadContractsLogsOnly ==
  /\ pc = "LoadContracts"
  /\ \/ UNCHANGED exitCause
     \/ exitCause' = "contracts"
  /\ pc' = "WithCancel"
  /\ UNCHANGED <<cfgVars, sigVars, ctxVars, outputs, chainVars, serverVars,
                 dbVars, waitResult, sinkVars>>

\* contracts, err := LoadContracts(config, dir), Fatalf on an error.
LoadContracts ==
  /\ pc = "LoadContracts"
  /\ \/ /\ pc' = "WithCancel"
        /\ UNCHANGED exitCause
     \/ Fatal("contracts")
  /\ UNCHANGED <<cfgVars, sigVars, ctxVars, outputs, chainVars, serverVars,
                 dbVars, waitResult, sinkVars>>

\* Run without go ShutdownHandler(cancel): nothing listens for a
\* termination request.
WithCancelUnarmed ==
  /\ pc = "WithCancel"
  /\ listening' = FALSE
  /\ pc' = "NewOutputs"
  /\ UNCHANGED <<exitCause, cfgVars, requests, ctxVars, outputs, chainVars,
                 serverVars, dbVars, waitResult, sinkVars>>

\* ---------------------------------------------------------------- Run
\* ctx, cancel := context.WithCancel(...); go ShutdownHandler(cancel);
\* g, gctx := errgroup.WithContext(ctx); a.ctx = gctx
WithCancel ==
  /\ pc = "WithCancel"
  /\ listening' = TRUE
  /\ pc' = "NewOutputs"
  /\ UNCHANGED <<exitCause, cfgVars, requests, ctxVars, outputs, chainVars,
                 serverVars, dbVars, waitResult, sinkVars>>

\* a.config.Outputs.Console != nil && !a.config.Outputs.Console.Disabled:
\* a configuration without a console section gets no console output.
ConsoleEnabledWhenPresent(cfg) == cfg.console = "enabled"

\* a.config.Outputs.Console == nil || !a.config.Outputs.Console.Disabled
ConsoleEnabled(cfg) == cfg.console = "absent" \/ cfg.console # "disabled"

\* NewOutputs(): an empty collection.
EmptyOutputs == << >>

\* outputs.Add(o): o is appended to the collection.
Add(outs, o) == Append(outs, o)

NewOutputs ==
  /\ pc = "NewOutputs"
  /\ outputs' =
       IF ConsoleEnabled(config) THEN Add(EmptyOutputs, "console")
       ELSE EmptyOutputs
  /\ pc' = "NewChains"
  /\ UNCHANGED <<exitCause, cfgVars, sigVars, ctxVars, chainVars, serverVars,
                 dbVars, waitResult, sinkVars>>

\* NewChains(...) that also starts each chain's loop: the chains run
\* while Run is still connecting and adding the database.
NewChainsStartsChains ==
  /\ pc = "NewChains"
  /\ chainState' =
       [c \in Chains |-> IF c <= config.chains THEN "Running" ELSE "Absent"]
  /\ pc' = IF config.postgres # "absent" THEN "Connect" ELSE "StartChains"
  /\ UNCHANGED <<exitCause, cfgVars, sigVars, ctxVars, outputs, chainFailed,
                 chainPos, nextChain, serverVars, dbVars,
                 waitResult, sinkVars>>

\* handler := NewLogHandler(..., outputs); chains := NewChains(..., handler)
NewChains ==
  /\ pc = "NewChains"
  /\ chainState' =
       [c \in Chains |-> IF c <= config.chains THEN "Created" ELSE "Absent"]
  /\ pc' = IF config.postgres # "absent" THEN "Connect" ELSE "StartChains"
  /\ UNCHANGED <<exitCause, cfgVars, sigVars, ctxVars, outputs, chainFailed,
                 chainPos, nextChain, serverVars, dbVars,
                 waitResult, sinkVars>>

\* db.Connect(ctx, url) with the error only logged: Run carries on.
ConnectLogsOnly ==
  /\ pc = "Connect"
  /\ \/ /\ config.postgres = "reachable"
        /\ dbState' = "connected"
        /\ UNCHANGED exitCause
     \/ /\ exitCause' = "connect"
        /\ UNCHANGED dbState
  /\ pc' = "DeferClose"
  /\ UNCHANGED <<cfgVars, sigVars, ctxVars, outputs, chainVars, serverVars,
                 deferred, closeCount, waitResult, sinkVars>>

\* db := NewDatabase(...); db.Connect(ctx, url), Fatalw on an error. An
\* unreachable address always fails; a reachable one can fail too.
Connect ==
  /\ pc = "Connect"
  /\ \/ /\ config.postgres = "reachable"
        /\ dbState' = "connected"
        /\ pc' = "DeferClose"
        /\ UNCHANGED exitCause
     \/ /\ Fatal("connect")
        /\ UNCHANGED dbState
  /\ UNCHANGED <<cfgVars, sigVars, ctxVars, outputs, chainVars, serverVars,
                 deferred, closeCount, waitResult, sinkVars>>

\* db.Close(ctx) written without the defer keyword: it runs at once.
CloseAtOnce ==
  /\ pc = "DeferClose"
  /\ dbState' = "closed"
  /\ closeCount' = closeCount + 1
  /\ pc' = "MigrateSchema"
  /\ UNCHANGED <<exitCause, cfgVars, sigVars, ctxVars, outputs, chainVars,
                 serverVars, deferred, waitResult, sinkVars>>

\* defer db.Close(ctx)
DeferClose ==
  /\ pc = "DeferClose"
  /\ deferred' = TRUE
  /\ pc' = "MigrateSchema"
  /\ UNCHANGED <<exitCause, cfgVars, sigVars, ctxVars, outputs, chainVars,
                 serverVars, dbState, closeCount, waitResult, sinkVars>>

\* db.MigrateSchema(ctx, chains) with the error only logged.
MigrateSchemaLogsOnly ==
  /\ pc = "MigrateSchema"
  /\ \/ /\ dbState' = "migrated"
        /\ UNCHANGED exitCause
     \/ /\ exitCause' = "migrate"
        /\ UNCHANGED dbState
  /\ pc' = "AddDatabase"
  /\ UNCHANGED <<cfgVars, sigVars, ctxVars, outputs, chainVars, serverVars,
                 deferred, closeCount, waitResult, sinkVars>>

\* db.MigrateSchema(ctx, chains), Fatalw on an error.
MigrateSchema ==
  /\ pc = "MigrateSchema"
  /\ \/ /\ dbState' = "migrated"
        /\ pc' = "AddDatabase"
        /\ UNCHANGED exitCause
     \/ /\ Fatal("migrate")
        /\ UNCHANGED dbState
  /\ UNCHANGED <<cfgVars, sigVars, ctxVars, outputs, chainVars, serverVars,
                 deferred, closeCount, waitResult, sinkVars>>

\* The database block placed ahead of the console block: the database
\* ends up first in the collection.
AddDatabaseFirst ==
  /\ pc = "AddDatabase"
  /\ outputs' = <<"db">> \o outputs
  /\ pc' = "StartChains"
  /\ UNCHANGED <<exitCause, cfgVars, sigVars, ctxVars, chainVars, serverVars,
                 dbVars, waitResult, sinkVars>>

\* outputs.Add(db)
AddDatabase ==
  /\ pc = "AddDatabase"
  /\ outputs' = Add(outputs, "db")
  /\ pc' = "StartChains"
  /\ UNCHANGED <<exitCause, cfgVars, sigVars, ctxVars, chainVars, serverVars,
                 dbVars, waitResult, sinkVars>>

\* The loop without chain := chain, all closures sharing the one loop
\* variable: each iteration's goroutine runs the loop of the last chain.
StartChainsSharedLoopVar ==
  /\ pc = "StartChains"
  /\ IF nextChain <= config.chains
       THEN /\ chainState' = [chainState EXCEPT ![config.chains] = "Running"]
            /\ nextChain' = nextChain + 1
            /\ UNCHANGED pc
       ELSE /\ pc' = "NewServer"
            /\ UNCHANGED <<chainState, nextChain>>
  /\ UNCHANGED <<exitCause, cfgVars, sigVars, ctxVars, outputs, chainFailed,
                 chainPos, serverVars, dbVars, waitResult,
                 sinkVars>>

\* for _, chain := range chains { g.Go(func() error {...}) }: one
\* iteration starts the next chain's goroutine; the loop ends after the
\* last chain.
StartChains ==
  /\ pc = "StartChains"
  /\ IF nextChain <= config.chains
       THEN /\ chainState' = [chainState EXCEPT ![nextChain] = "Running"]
            /\ nextChain' = nextChain + 1
            /\ UNCHANGED pc
       ELSE /\ pc' = "NewServer"
            /\ UNCHANGED <<chainState, nextChain>>
  /\ UNCHANGED <<exitCause, cfgVars, sigVars, ctxVars, outputs, chainFailed,
                 chainPos, serverVars, dbVars, waitResult,
                 sinkVars>>

\* s := NewServer(a)
NewServer ==
  /\ pc = "NewServer"
  /\ serverState' = "Created"
  /\ pc' = "GoServer"
  /\ UNCHANGED <<exitCause, cfgVars, sigVars, ctxVars, outputs, chainVars,
                 serverResult, dbVars, waitResult, sinkVars>>

\* g.Go(s.Run)
GoServer ==
  /\ pc = "GoServer"
  /\ serverState' = "Running"
  /\ pc' = "Wait"
  /\ UNCHANGED <<exitCause, cfgVars, sigVars, ctxVars, outputs, chainVars,
                 serverResult, dbVars, waitResult, sinkVars>>

\* The chains started with a plain go statement instead of g.Go: the
\* group knows, and waits for, the server's goroutine only.
AllReturnedServerOnly == serverState \in {"Completed", "Cancelled"}

\* Every goroutine handed to g.Go has returned.
AllReturned ==
  /\ \A c \in Chains : chainState[c] \in {"Absent", "Cancelled"}
  /\ serverState \in {"Completed", "Cancelled"}

\* <-gctx.Done() in the place of g.Wait(): Run goes on as soon as gctx is
\* cancelled, whatever the goroutines are doing.
WaitOnDone ==
  /\ pc = "Wait"
  /\ gctxDone
  /\ waitResult' = gerr
  /\ gctxDone' = TRUE
  /\ IF gerr # NoErr
       THEN Fatal("wait")
       ELSE /\ pc' = "Return"
            /\ UNCHANGED exitCause
  /\ UNCHANGED <<cfgVars, sigVars, ctxDone, gerr, outputs, chainVars,
                 serverVars, dbVars, sinkVars>>

\* g.Wait(): blocks until every goroutine of the group has returned,
\* cancels gctx and returns the recorded first error; Fatalf on an error.
Wait ==
  /\ pc = "Wait"
  /\ AllReturned
  /\ waitResult' = gerr
  /\ gctxDone' = TRUE
  /\ IF gerr # NoErr
       THEN Fatal("wait")
       ELSE /\ pc' = "Return"
            /\ UNCHANGED exitCause
  /\ UNCHANGED <<cfgVars, sigVars, ctxDone, gerr, outputs, chainVars,
                 serverVars, dbVars, sinkVars>>

\* Run returns: the deferred db.Close(ctx) runs, if it was registered.
Return ==
  /\ pc = "Return"
  /\ IF deferred
       THEN /\ dbState' = "closed"
            /\ closeCount' = closeCount + 1
       ELSE UNCHANGED <<dbState, closeCount>>
  /\ pc' = "done"
  /\ UNCHANGED <<exitCause, cfgVars, sigVars, ctxVars, outputs, chainVars,
                 serverVars, deferred, waitResult, sinkVars>>

\* cancel() with the group's context derived from context.Background()
\* instead of ctx: cancelling ctx does not reach gctx.
cancelRootOnly ==
  /\ ctxDone' = TRUE
  /\ UNCHANGED <<gctxDone, gerr>>

\* ------------------------------------------------- contexts and group
\* cancel(): cancels ctx and, with it, the derived gctx; calling it again
\* changes nothing.
cancel ==
  /\ ctxDone' = TRUE
  /\ gctxDone' = TRUE
  /\ UNCHANGED gerr

\* The group cancels gctx whenever a function given to g.Go returns.
GoDoneCancelsOnAnyReturn(err) ==
  /\ gerr' = IF err # NoErr /\ gerr = NoErr THEN err ELSE gerr
  /\ gctxDone' = TRUE
  /\ UNCHANGED ctxDone

\* What the errgroup does when a function given to g.Go returns err: the
\* first non-nil error is recorded and cancels gctx.
GoDone(err) ==
  /\ gerr' = IF err # NoErr /\ gerr = NoErr THEN err ELSE gerr
  /\ gctxDone' = (gctxDone \/ err # NoErr)
  /\ UNCHANGED ctxDone

\* ---------------------------------------------------- ShutdownHandler
\* A second termination request forces the process to exit.
ShutdownHandlerForcesExit ==
  /\ Alive
  /\ requests < MaxSignals
  /\ \/ /\ listening
        /\ cancel
        /\ listening' = FALSE
        /\ UNCHANGED mainVars
     \/ /\ ~listening
        /\ requests >= 1
        /\ Fatal("signal")
        /\ UNCHANGED <<listening, ctxVars>>
  /\ requests' = requests + 1
  /\ UNCHANGED <<cfgVars, outputs, chainVars, serverVars, dbVars, waitResult,
                 sinkVars>>

\* A termination request arrives. The handler, while it listens, calls
\* cancel once and returns; a later request finds no listener.
ShutdownHandler ==
  /\ Alive
  /\ requests < MaxSignals
  /\ \/ /\ listening
        /\ cancel
        /\ listening' = FALSE
     \/ /\ ~listening
        /\ requests >= 1
        /\ UNCHANGED <<listening, ctxVars>>
  /\ requests' = requests + 1
  /\ UNCHANGED <<mainVars, cfgVars, outputs, chainVars, serverVars, dbVars,
                 waitResult, sinkVars>>

\* ------------------------------------------------------------- chains
\* The function given to g.Go returns what the loop ran into.
ChainGoResultLoopErr(c) == IF chainFailed[c] THEN ChainErr ELSE NoErr

\* The function given to g.Go returns gctx.Err().
ChainGoResultCtxErr(c) == CtxCanceled

\* g.Go(func() error { chain.RunLoop(gctx); return nil })
ChainGoResult(c) == NoErr

\* The loop observes an event and calls the handler, which hands it to the
\* outputs one after the other.
RunLoopDispatch(c) ==
  /\ Alive
  /\ chainState[c] = "Running"
  /\ chainPos[c] = 0
  /\ ~gctxDone
  /\ rounds < MaxRounds
  /\ rounds' = rounds + 1
  /\ delivered' = [delivered EXCEPT ![c] = << >>]
  /\ chainPos' = [chainPos EXCEPT ![c] = IF Len(outputs) > 0 THEN 1 ELSE 0]
  /\ UNCHANGED <<mainVars, cfgVars, sigVars, ctxVars, outputs, chainState,
                 chainFailed, nextChain, serverVars, dbVars, waitResult,
                 failures, dbSeenAt>>

\* The fan-out stops at the first output that fails.
DeliverStopsOnFailure(c) ==
  /\ Alive
  /\ chainState[c] = "Running"
  /\ chainPos[c] >= 1
  /\ \E ok \in BOOLEAN :
       /\ delivered' = [delivered EXCEPT
            ![c] = Append(@, outputs[chainPos[c]])]
       /\ failures' =
            IF ok THEN failures
            ELSE failures \cup {chainPos[c]}
       /\ chainPos' = [chainPos EXCEPT
            ![c] = IF ok /\ @ < Len(outputs) THEN @ + 1 ELSE 0]
  /\ dbSeenAt' =
       IF outputs[chainPos[c]] = "db" THEN dbSeenAt \cup {dbState}
       ELSE dbSeenAt
  /\ UNCHANGED <<mainVars, cfgVars, sigVars, ctxVars, outputs, chainState,
                 chainFailed, nextChain, serverVars, dbVars,
                 waitResult, rounds>>

\* One output receives the event; a failure is logged and the fan-out goes
\* on with the next output.
Deliver(c) ==
  /\ Alive
  /\ chainState[c] = "Running"
  /\ chainPos[c] >= 1
  /\ \E ok \in BOOLEAN :
       /\ delivered' = [delivered EXCEPT
            ![c] = Append(@, outputs[chainPos[c]])]
       /\ failures' =
            IF ok THEN failures
            ELSE failures \cup {chainPos[c]}
  /\ dbSeenAt' =
       IF outputs[chainPos[c]] = "db" THEN dbSeenAt \cup {dbState}
       ELSE dbSeenAt
  /\ chainPos' = [chainPos EXCEPT ![c] = IF @ < Len(outputs) THEN @ + 1 ELSE 0]
  /\ UNCHANGED <<mainVars, cfgVars, sigVars, ctxVars, outputs, chainState,
                 chainFailed, nextChain, serverVars, dbVars,
                 waitResult, rounds>>

\* The loop's next round runs into an internal error instead of an event:
\* the loop logs it and keeps running.
RunLoopError(c) ==
  /\ Alive
  /\ chainState[c] = "Running"
  /\ chainPos[c] = 0
  /\ ~gctxDone
  /\ rounds < MaxRounds
  /\ rounds' = rounds + 1
  /\ chainFailed' = [chainFailed EXCEPT ![c] = TRUE]
  /\ UNCHANGED <<mainVars, cfgVars, sigVars, ctxVars, outputs, chainState,
                 chainPos, nextChain, serverVars, dbVars, waitResult,
                 delivered, failures, dbSeenAt>>

\* The loop observes that gctx is cancelled and returns; so does the
\* function given to g.Go.
RunLoopCancelled(c) ==
  /\ Alive
  /\ chainState[c] = "Running"
  /\ chainPos[c] = 0
  /\ gctxDone
  /\ chainState' = [chainState EXCEPT ![c] = "Cancelled"]
  /\ GoDone(ChainGoResult(c))
  /\ UNCHANGED <<mainVars, cfgVars, sigVars, outputs, chainFailed, chainPos,
                 nextChain, serverVars, dbVars, waitResult, sinkVars>>

\* ------------------------------------------------------------- server
\* The server's goroutine is started outside the group: its result is lost.
ServerGoResultDropped(r) == NoErr

\* The group is told of an error whenever s.Run returns, also when it
\* returns nil: a server that stops counts as a failure.
ServerGoResultStopIsError(r) == IF r = NoErr THEN ServerErr ELSE r

\* g.Go(s.Run): what s.Run returns is what the group is told.
ServerGoResult(r) == r

\* s.Run fails while gctx is live.
ServerFails ==
  /\ Alive
  /\ serverState = "Running"
  /\ ~gctxDone
  /\ serverState' = "Completed"
  /\ serverResult' = ServerErr
  /\ GoDone(ServerGoResult(ServerErr))
  /\ UNCHANGED <<mainVars, cfgVars, sigVars, outputs, chainVars, dbVars,
                 waitResult, sinkVars>>

\* s.Run returns without an error while gctx is live.
ServerReturns ==
  /\ Alive
  /\ serverState = "Running"
  /\ ~gctxDone
  /\ serverState' = "Completed"
  /\ serverResult' = NoErr
  /\ GoDone(ServerGoResult(NoErr))
  /\ UNCHANGED <<mainVars, cfgVars, sigVars, outputs, chainVars, dbVars,
                 waitResult, sinkVars>>

\* s.Run observes that gctx is cancelled, shuts the endpoint down and
\* returns without an error.
ServerCancelled ==
  /\ Alive
  /\ serverState = "Running"
  /\ gctxDone
  /\ serverState' = "Cancelled"
  /\ serverResult' = NoErr
  /\ GoDone(ServerGoResult(NoErr))
  /\ UNCHANGED <<mainVars, cfgVars, sigVars, outputs, chainVars, dbVars,
                 waitResult, sinkVars>>

\* ------------------------------------------------------ specification
NewApp == LoadConfigJSON \/ LoadContracts

Run ==
  \/ WithCancel
  \/ NewOutputs
  \/ NewChains
  \/ Connect
  \/ DeferClose
  \/ MigrateSchema
  \/ AddDatabase
  \/ StartChains
  \/ NewServer
  \/ GoServer
  \/ Wait
  \/ Return

ChainTask(c) ==
  \/ RunLoopDispatch(c)
  \/ Deliver(c)
  \/ RunLoopError(c)
  \/ RunLoopCancelled(c)

ServerTask == ServerFails \/ ServerReturns \/ ServerCancelled

Next ==
  \/ NewApp
  \/ Run
  \/ ShutdownHandler
  \/ \E c \in Chains : ChainTask(c)
  \/ ServerTask

Spec == Init /\ [][Next]_vars

\* The Go scheduler runs every runnable goroutine: the main goroutine goes
\* on, a chain finishes its fan-out and returns once gctx is cancelled, and
\* so does the server.
FairSpec ==
  /\ Spec
  /\ WF_vars(NewApp \/ Run)
  /\ \A c \in Chains : WF_vars(Deliver(c) \/ RunLoopCancelled(c))
  /\ WF_vars(ServerCancelled)

\* A chain's loop that stops for good while it waits for its next round:
\* it neither runs another round nor looks at gctx again, and the function
\* given to g.Go never returns. One chain hangs in a run.
RunLoopHangs(c) ==
  /\ Alive
  /\ chainState[c] = "Running"
  /\ chainPos[c] = 0
  /\ \A d \in Chains : chainState[d] # "Hung"
  /\ chainState' = [chainState EXCEPT ![c] = "Hung"]
  /\ UNCHANGED <<mainVars, cfgVars, sigVars, ctxVars, outputs, chainFailed,
                 chainPos, nextChain, serverVars, dbVars, waitResult,
                 sinkVars>>

HangNext ==
  \/ Next
  \/ \E c \in Chains : RunLoopHangs(c)

\* Run with chains that may hang, under the scheduling of FairSpec.
HangSpec ==
  /\ Init
  /\ [][HangNext]_vars
  /\ WF_vars(NewApp \/ Run)
  /\ \A c \in Chains : WF_vars(Deliver(c) \/ RunLoopCancelled(c))
  /\ WF_vars(ServerCancelled)

\* The outputs and the handler on their own: any sequence of Add calls,
\* the same output more than once included, and then the chains'
\* goroutines dispatching events to the collection.
Outputs == {"console", "db"}

SinkInit ==
  /\ pc = "SinkAdd"
  /\ exitCause = ""
  /\ config = [chains |-> MaxChains, console |-> "absent",
               postgres |-> "reachable"]
  /\ listening = TRUE
  /\ requests = 0
  /\ ctxDone = FALSE
  /\ gctxDone = FALSE
  /\ gerr = NoErr
  /\ outputs = EmptyOutputs
  /\ chainState = [c \in Chains |-> "Created"]
  /\ chainFailed = [c \in Chains |-> FALSE]
  /\ chainPos = [c \in Chains |-> 0]
  /\ nextChain = 1
  /\ serverState = "Absent"
  /\ serverResult = NoErr
  /\ dbState = "migrated"
  /\ deferred = TRUE
  /\ closeCount = 0
  /\ waitResult = "pending"
  /\ rounds = 0
  /\ delivered = [c \in Chains |-> << >>]
  /\ failures = {}
  /\ dbSeenAt = {}

SinkAdd(o) ==
  /\ pc = "SinkAdd"
  /\ Len(outputs) < MaxOutputs
  /\ outputs' = Add(outputs, o)
  /\ UNCHANGED <<mainVars, cfgVars, sigVars, ctxVars, chainVars, serverVars,
                 dbVars, waitResult, sinkVars>>

SinkStart ==
  /\ pc = "SinkAdd"
  /\ pc' = "Wait"
  /\ chainState' = [c \in Chains |-> "Running"]
  /\ UNCHANGED <<exitCause, cfgVars, sigVars, ctxVars, outputs, chainFailed,
                 chainPos, nextChain, serverVars, dbVars, waitResult,
                 sinkVars>>

SinkNext ==
  \/ \E o \in Outputs : SinkAdd(o)
  \/ SinkStart
  \/ \E c \in Chains : RunLoopDispatch(c)
  \/ \E c \in Chains : Deliver(c)

SinkSpec == SinkInit /\ [][SinkNext]_vars

TypeOK ==
  /\ pc \in {"LoadConfigJSON", "LoadContracts", "WithCancel", "NewOutputs",
             "NewChains", "Connect", "DeferClose", "MigrateSchema",
             "AddDatabase", "StartChains", "NewServer", "GoServer", "Wait",
             "Return", "done", "exited"}
  /\ config \in Configs \cup {NoConfig}
  /\ requests \in 0..MaxSignals
  /\ gerr \in {NoErr, ServerErr}
  /\ Len(outputs) <= 2
  /\ \A c \in Chains : chainPos[c] \in 0..Len(outputs)
  /\ rounds \in 0..MaxRounds
  /\ closeCount \in 0..1

\* --------------------------------------------------------------- claims
ConfiguredChains == 1..config.chains
ServerFailed == serverResult = ServerErr
WaitReturned == waitResult # "pending"
ChainsCancelled == \A c \in ConfiguredChains : chainState[c] = "Cancelled"

\* C1: once the server task has returned an error the scope (gctx) is
\* cancelled, and from then on the run leads to a state in which every
\* chain task is Cancelled and Wait has returned exactly the server's error.
C1_ServerFailureCancelsAndPropagates ==
  /\ [](ServerFailed => gctxDone)
  /\ ServerFailed ~>
       (ChainsCancelled /\ waitResult = ServerErr /\ exitCause = "wait")

C1_Witness ==
  /\ ServerFailed
  /\ ~ctxDone
  /\ config.chains = MaxChains
  /\ ChainsCancelled
  /\ waitResult = ServerErr

\* C2: a chain task never surfaces an error: the group's recorded error is
\* never a chain's, and whenever Wait returns and the server task has not
\* failed it returns no error, whatever the chains' loops ran into.
C2_ChainErrorsContained ==
  /\ gerr # NoErr => ServerFailed
  /\ (WaitReturned /\ ~ServerFailed) => waitResult = NoErr

C2_Witness ==
  /\ WaitReturned
  /\ waitResult = NoErr
  /\ config.chains = MaxChains
  /\ \A c \in ConfiguredChains :
       chainFailed[c] /\ chainState[c] = "Cancelled"

DbAdded == \E i \in 1..Len(outputs) : outputs[i] = "db"
TaskStarted ==
  \/ \E c \in Chains : chainState[c] \in {"Running", "Hung", "Cancelled"}
  \/ serverState \in {"Running", "Completed", "Cancelled"}

\* C3: the database receives an event only in a state where Connect and
\* MigrateSchema have succeeded; it is in the outputs only after both; and
\* no chain or server goroutine is started before a configured database is
\* connected, migrated and added.
C3_StoreReadyBeforeDispatch ==
  /\ dbSeenAt \subseteq {"migrated"}
  /\ DbAdded => dbState \in {"migrated", "closed"}
  /\ (TaskStarted /\ config.postgres # "absent") =>
       (DbAdded /\ dbState \in {"migrated", "closed"})

C3_Witness ==
  /\ dbSeenAt = {"migrated"}
  /\ rounds = MaxRounds
  /\ \A c \in Chains : ~chainFailed[c]

StartupPassed ==
  pc \in {"StartChains", "NewServer", "GoServer", "Wait", "Return", "done"}

\* C4: with the console enabled and startup passed, a shutdown request
\* that arrives before the server task has returned of its own accord
\* leads to Run returning with Wait's result nil and every chain task
\* Cancelled.
C4_ShutdownEndsCleanly ==
  (ctxDone /\ ConsoleEnabled(config) /\ StartupPassed
     /\ serverState # "Completed")
    ~> (pc = "done" /\ waitResult = NoErr /\ ChainsCancelled)

C4_Witness ==
  /\ pc = "done"
  /\ ctxDone
  /\ ConsoleEnabled(config)
  /\ config.chains = MaxChains
  /\ ChainsCancelled
  /\ serverState = "Cancelled"
  /\ waitResult = NoErr
  /\ rounds = 0

\* C5: when a dispatch finishes, the event has been handed to exactly the
\* outputs added, once per Add and in Add order (an output added twice
\* gets it twice), whichever deliveries failed; while it is in progress the
\* outputs served are the prefix before the current position.
C5_DeliveredToEveryOutputInOrder ==
  /\ [](\A c \in Chains :
          chainPos[c] >= 1 =>
            delivered[c] = SubSeq(outputs, 1, chainPos[c] - 1))
  /\ [][\A c \in Chains :
          (chainPos[c] >= 1 /\ chainPos'[c] = 0) => delivered'[c] = outputs]_vars

C5_Witness ==
  \E c \in Chains :
    /\ chainPos[c] = 0
    /\ Len(outputs) = MaxOutputs
    /\ delivered[c] = outputs
    /\ outputs[1] = outputs[MaxOutputs]
    /\ outputs[1] # outputs[2]
    /\ 1 \in failures

\* C6: once the database is connected, db.Close has run exactly once when
\* the process has ended after Wait returned, with or without an error.
C6_ReleasedOnEveryExit ==
  (~Alive /\ WaitReturned /\ dbState # "absent") => closeCount = 1

\* C7: db.Close runs only after every goroutine of the group has returned
\* and no delivery is in progress, and the database never receives an
\* event once it is closed.
C7_NoReleaseWhileRunning ==
  /\ (closeCount > 0 \/ dbState = "closed") =>
       (AllReturned /\ \A c \in Chains : chainPos[c] = 0)
  /\ "closed" \notin dbSeenAt

C7_Witness ==
  /\ closeCount = 1
  /\ dbState = "closed"
  /\ config.chains = MaxChains
  /\ dbSeenAt # {}

\* C8: a termination request after the first changes nothing but the count
\* of requests: ctx, gctx and the recorded error stay as they are and the
\* process goes on as before.
C8_RepeatedShutdownIsNoOp ==
  [][(requests >= 1 /\ requests' > requests) =>
       UNCHANGED <<mainVars, cfgVars, listening, ctxVars, outputs, chainVars,
                   serverVars, dbVars, waitResult, sinkVars>>]_vars

C8_Witness ==
  /\ requests = MaxSignals
  /\ requests >= 2
  /\ ctxDone
  /\ gerr = ServerErr
  /\ Alive

StartupFailures == {"config", "contracts", "connect", "migrate"}

\* C9: a failure of the config load, the contract load, the database
\* connect or the schema migration ends the process, and no chain or
\* server goroutine has been started.
C9_StartupFailureBeforeTasks ==
  exitCause \in StartupFailures => (pc = "exited" /\ ~TaskStarted)

C9_Witness ==
  /\ pc = "exited"
  /\ exitCause = "migrate"
  /\ config.chains = MaxChains

\* C10 as stated: when the database's address is unreachable the process
\* exits before any chain is constructed.
C10_ExitsBeforeChainsConstructed ==
  (config.postgres = "unreachable" /\ exitCause = "connect") =>
    \A c \in Chains : chainState[c] = "Absent"

\* C10 amended: when the database's address is unreachable the process
\* exits at Connect (unless the contract load has already ended it), before
\* any chain task is started; the chains have by then been constructed by
\* NewChains.
C10_ExitsBeforeChainsStarted ==
  config.postgres = "unreachable" =>
    /\ ~TaskStarted
    /\ pc \notin {"DeferClose", "MigrateSchema", "AddDatabase", "StartChains",
                  "NewServer", "GoServer", "Wait", "Return", "done"}
    /\ pc = "exited" => exitCause \in {"contracts", "connect"}

C10_Witness ==
  /\ config.postgres = "unreachable"
  /\ pc = "exited"
  /\ exitCause = "connect"
  /\ config.chains = MaxChains
  /\ \A c \in ConfiguredChains : chainState[c] = "Created"

\* C11: while Wait has not returned, gctx is cancelled only if a shutdown
\* request cancelled ctx or the server task returned an error; a step in
\* which a chain's loop logs an internal error or a delivery to an output
\* fails leaves both contexts, the recorded error, every chain's state and
\* the server as they are.
C11_OnlyShutdownOrServerFailureCancels ==
  /\ []((gctxDone /\ ~WaitReturned) => (ctxDone \/ ServerFailed))
  /\ [][(chainFailed' # chainFailed \/ failures' # failures) =>
          UNCHANGED <<ctxVars, chainState, serverVars>>]_vars

C11_Witness ==
  /\ failures # {}
  /\ \E c \in Chains : chainFailed[c]
  /\ ~gctxDone
  /\ config.chains = MaxChains
  /\ \A c \in ConfiguredChains : chainState[c] = "Running"
  /\ serverState = "Running"

\* C12: the step in which g.Wait returns is taken only in a state where
\* every configured chain's goroutine and the server's goroutine have
\* returned, and in every state after Wait has returned no chain and no
\* server goroutine is Running or in the middle of a dispatch, whether or
\* not gctx had been cancelled before.
C12_WaitReturnsAfterEveryTask ==
  /\ [](WaitReturned =>
          /\ \A c \in ConfiguredChains :
               chainState[c] = "Cancelled" /\ chainPos[c] = 0
          /\ serverState \in {"Completed", "Cancelled"})
  /\ [][(~WaitReturned /\ WaitReturned') =>
          /\ \A c \in ConfiguredChains : chainState[c] = "Cancelled"
          /\ serverState \in {"Completed", "Cancelled"}]_vars

C12_Witness ==
  /\ WaitReturned
  /\ pc = "Return"
  /\ config.chains = MaxChains
  /\ ChainsCancelled
  /\ ctxDone
  /\ serverState = "Cancelled"

\* Run has passed the construction of the outputs (app.go:82-85).
OutputsBuilt ==
  \/ pc \in {"NewChains", "Connect", "DeferClose", "MigrateSchema",
             "AddDatabase", "StartChains", "NewServer", "GoServer", "Wait",
             "Return", "done"}
  \/ pc = "exited" /\ exitCause \in {"connect", "migrate", "wait"}
OutputSet == {outputs[i] : i \in 1..Len(outputs)}

\* C13: once the outputs are built the console is among them exactly when
\* the configuration has no console section or one that is not disabled;
\* the database is connected, migrated, added to the outputs or scheduled
\* for closing only under a configuration with a postgres section; and
\* without a postgres section the database stays absent, receives nothing,
\* and every dispatch that finishes under an enabled console has delivered
\* its event to the console and to nothing else.
C13_OutputsFollowConfiguration ==
  /\ [](OutputsBuilt =>
          ("console" \in OutputSet <=> config.console \in {"absent", "enabled"}))
  /\ []((dbState # "absent" \/ "db" \in OutputSet \/ deferred) =>
          (config # NoConfig /\ config.postgres # "absent"))
  /\ []((config # NoConfig /\ config.postgres = "absent") =>
          (dbState = "absent" /\ dbSeenAt = {} /\ closeCount = 0))
  /\ [][\A c \in Chains :
          (/\ config.postgres = "absent"
           /\ config.console # "disabled"
           /\ chainPos[c] >= 1
           /\ chainPos'[c] = 0) => delivered'[c] = <<"console">>]_vars

C13_Witness ==
  /\ config # NoConfig
  /\ config.postgres = "absent"
  /\ config.console = "absent"
  /\ dbState = "absent"
  /\ \E c \in Chains :
       chainState[c] = "Running" /\ chainPos[c] = 0
         /\ delivered[c] = <<"console">>

\* C14: no step takes ctx or gctx from cancelled back to live; gctx is
\* cancelled whenever ctx is; a chain or the server is Cancelled only under
\* a cancelled gctx; and while gctx is cancelled every running chain that
\* is between two rounds can only return: none of them can dispatch a new
\* event or run another round, so no chain is cancelled apart from the rest.
C14_CancellationMonotonicAndShared ==
  /\ [][(ctxDone => ctxDone') /\ (gctxDone => gctxDone')]_vars
  /\ [](ctxDone => gctxDone)
  /\ []((serverState = "Cancelled"
          \/ \E c \in Chains : chainState[c] = "Cancelled") => gctxDone)
  /\ [](gctxDone =>
          \A c \in Chains :
            (chainState[c] = "Running" /\ chainPos[c] = 0) =>
              /\ ENABLED RunLoopCancelled(c)
              /\ ~ENABLED RunLoopDispatch(c)
              /\ ~ENABLED RunLoopError(c))

C14_Witness ==
  /\ ctxDone
  /\ gctxDone
  /\ config.chains = MaxChains
  /\ chainState[1] = "Cancelled"
  /\ chainState[MaxChains] = "Running"
  /\ serverState = "Running"

\* C15: a step that changes the outputs is taken only while no chain and
\* no server goroutine has been started, and leaves none started; from the
\* first started goroutine on the outputs stay what they are, so the
\* dispatching chains only read them.
C15_OutputsFixedOnceTasksRun ==
  /\ [][(outputs' # outputs) => (~TaskStarted /\ ~TaskStarted')]_vars
  /\ [][TaskStarted => outputs' = outputs]_vars
  /\ [](pc \in {"NewOutputs", "NewChains", "Connect", "DeferClose",
                "MigrateSchema", "AddDatabase"} => ~TaskStarted)

C15_Witness ==
  /\ outputs = <<"console", "db">>
  /\ config.chains = MaxChains
  /\ \A c \in ConfiguredChains : chainState[c] = "Running" /\ chainPos[c] >= 1
  /\ serverState = "Running"

\* The steps a task may take: constructed, started with g.Go, returned.
TaskStep(s, t) ==
  \/ t = s
  \/ s = "Absent" /\ t = "Created"
  \/ s = "Created" /\ t = "Running"
  \/ s = "Running" /\ t \in {"Completed", "Cancelled"}

\* Every configured chain and the server have returned.
TasksReturned ==
  /\ ChainsCancelled
  /\ serverState \in {"Completed", "Cancelled"}

\* The supervisor's overall state, read off Run: Stopped once g.Wait has
\* returned; before that Draining from the moment gctx is cancelled or the
\* last task has returned, Running while goroutines are started and gctx
\* is live, Idle before the first g.Go.
SupervisorState ==
  IF WaitReturned THEN "Stopped"
  ELSE IF gctxDone \/ (TaskStarted /\ TasksReturned) THEN "Draining"
  ELSE IF TaskStarted THEN "Running"
  ELSE "Idle"

SupervisorRank(s) ==
  CASE s = "Idle" -> 0
    [] s = "Running" -> 1
    [] s = "Draining" -> 2
    [] s = "Stopped" -> 3

SomeChainHung == \E c \in Chains : chainState[c] = "Hung"

\* Every task but the hung chains has returned.
OthersReturned ==
  /\ \A c \in ConfiguredChains : chainState[c] \in {"Cancelled", "Hung"}
  /\ serverState \in {"Completed", "Cancelled"}

\* Under a cancelled gctx each chain that is not hung and is between two
\* rounds can return, and so can the running server.
OthersCanReturn ==
  gctxDone =>
    /\ \A c \in Chains :
         (chainState[c] = "Running" /\ chainPos[c] = 0) =>
           ENABLED RunLoopCancelled(c)
    /\ serverState = "Running" => ENABLED ServerCancelled

\* C17: with a chain hung, every other chain and the server can still
\* observe the cancellation and return, and nothing else is held up by the
\* hang: once the other tasks have returned, Run's g.Wait can return too.
C17_HangBlocksOnlyItself ==
  SomeChainHung =>
    /\ OthersCanReturn
    /\ (pc = "Wait" /\ OthersReturned) => ENABLED Wait

\* C17 (amended): the step in which a chain hangs changes no other chain,
\* not the server and no context; with a chain hung the other chains and
\* the server can still observe the cancellation and return, and once gctx
\* is cancelled after startup they all do; but g.Wait never returns while
\* a chain is hung, so Run does not return and the database is not closed.
C17_HangBlocksWaitOnly ==
  /\ [][\A c \in Chains :
          (chainState[c] # "Hung" /\ chainState'[c] = "Hung") =>
            /\ \A d \in Chains \ {c} : chainState'[d] = chainState[d]
            /\ UNCHANGED <<ctxVars, serverVars, chainPos, mainVars>>]_vars
  /\ [](SomeChainHung => OthersCanReturn)
  /\ [](SomeChainHung =>
          (pc \notin {"Return", "done", "exited"} /\ ~WaitReturned
             /\ closeCount = 0 /\ ~ENABLED Wait))
  /\ (gctxDone /\ StartupPassed) ~> OthersReturned

C17_Witness ==
  /\ pc = "Wait"
  /\ gctxDone
  /\ config.chains = MaxChains
  /\ chainState[1] = "Hung"
  /\ \A c \in ConfiguredChains \ {1} : chainState[c] = "Cancelled"
  /\ serverState = "Cancelled"
  /\ deferred

\* C18: from the step after WithCancel to the end of Run the shutdown
\* handler is listening unless it has already cancelled ctx, so it listens
\* before the database is connected and before any goroutine is started;
\* and a shutdown request that has cancelled ctx when the database is
\* added and no chain is started yet leads to every chain and the server
\* having been started and Cancelled and to Run returning with Wait's
\* result nil and the database closed once.
C18_ShutdownArmedBeforeStartup ==
  /\ []((Alive /\ pc \notin {"LoadConfigJSON", "LoadContracts", "WithCancel"})
          => (listening \/ ctxDone))
  /\ []((dbState # "absent" \/ TaskStarted) => (listening \/ ctxDone))
  /\ (ctxDone /\ DbAdded /\ pc = "StartChains" /\ nextChain = 1)
       ~> (/\ pc = "done"
           /\ waitResult = NoErr
           /\ ChainsCancelled
           /\ serverState = "Cancelled"
           /\ closeCount = 1)

C18_Witness ==
  /\ ctxDone
  /\ DbAdded
  /\ pc = "StartChains"
  /\ nextChain = 1
  /\ config.chains = MaxChains
  /\ ~TaskStarted

ServerReturnedNil == serverState = "Completed" /\ serverResult = NoErr

\* C19: the step in which s.Run returns nil of its own accord leaves gctx
\* and every chain as they are; while no shutdown request has cancelled
\* ctx after it, gctx stays live, every chain keeps running and g.Wait has
\* not returned; when Wait has returned after it, it has returned nil with
\* every chain Cancelled; and once a shutdown request has followed, Run
\* returns with Wait's result nil.
C19_ServerNormalReturnKeepsScope ==
  /\ [][(serverState = "Running" /\ ServerReturnedNil') =>
          (gctxDone' = gctxDone /\ gerr' = gerr /\ chainState' = chainState)]_vars
  /\ []((ServerReturnedNil /\ ~ctxDone /\ config.chains >= 1) =>
          /\ ~gctxDone
          /\ ~WaitReturned
          /\ pc = "Wait"
          /\ \A c \in ConfiguredChains : chainState[c] = "Running")
  /\ []((ServerReturnedNil /\ WaitReturned) =>
          (waitResult = NoErr /\ ChainsCancelled))
  /\ (ServerReturnedNil /\ ctxDone)
       ~> (pc = "done" /\ waitResult = NoErr /\ ChainsCancelled)

C19_Witness ==
  /\ ServerReturnedNil
  /\ ~ctxDone
  /\ ~gctxDone
  /\ pc = "Wait"
  /\ config.chains = MaxChains
  /\ \A c \in ConfiguredChains : chainState[c] = "Running"
  /\ rounds >= 1

\* C20: the outputs hold the console ahead of the database whenever they
\* hold both; the chains are constructed, with their handler, while the
\* database is not yet among the outputs, and by the time a goroutine is
\* started a configured database is; every event's deliveries follow the
\* order of the outputs, so with both enabled each finished dispatch has
\* delivered first to the console and then to the database.
C20_ConsoleBeforeStore ==
  /\ [](outputs \in {<< >>, <<"console">>, <<"db">>, <<"console", "db">>})
  /\ [](pc \in {"Connect", "DeferClose", "MigrateSchema", "AddDatabase"} =>
          (~DbAdded /\ \A c \in ConfiguredChains : chainState[c] = "Created"))
  /\ []((TaskStarted /\ config.postgres # "absent") => DbAdded)
  /\ [](\A c \in Chains : \A i \in 1..Len(delivered[c]) :
          i <= Len(outputs) /\ delivered[c][i] = outputs[i])
  /\ [][\A c \in Chains :
          (/\ chainPos[c] >= 1
           /\ chainPos'[c] = 0
           /\ config.postgres # "absent"
           /\ config.console # "disabled") =>
            delivered'[c] = <<"console", "db">>]_vars

C20_Witness ==
  /\ outputs = <<"console", "db">>
  /\ config.console = "enabled"
  /\ \E c \in Chains :
       /\ chainState[c] = "Running"
       /\ chainPos[c] = 0
       /\ delivered[c] = <<"console", "db">>
  /\ dbSeenAt = {"migrated"}

====
